---- MODULE Spec2Model ----
(***************************************************************************)
(* The extension host of jaykv/clay: the Invocation Handler                *)
(* (src/server/mcp/extensions/python-handler.py) and the Extension Loader  *)
(* (src/server/mcp/extensions/python-loader.py), each a short-lived        *)
(* process spawned by the host with file paths on its command line.        *)
(*                                                                         *)
(* One behaviour is one process run.  The inputs of a run (the extension   *)
(* file, the command line, the payload file) are drawn in Init; every      *)
(* action is one step of the code, in the order the code takes them.       *)
(***************************************************************************)
EXTENDS Integers, Sequences, FiniteSets, TLC

VARIABLES
    env,    \* what the host and the file system guarantee: "contract" or "any"
    prog,   \* which script the host spawned: "handler" or "loader"
    ext,    \* the extension file: what its code does when loaded and called
    h,      \* the handler processes (python-handler.py), one per invocation
    l,      \* the loader process (python-loader.py)
    fs      \* the files the processes write: path -> content

vars == <<env, prog, ext, h, l, fs>>

(***************************************************************************)
(* Files.  A file is absent, opened for writing and not yet complete       *)
(* (truncated, possibly partly written), or holds one complete JSON value. *)
(***************************************************************************)
ResultPath == "result.json"
OtherResultPath == "result-2.json"
OutputPath == "manifest.json"
Paths == {ResultPath, OtherResultPath, OutputPath}

Absent == [state |-> "absent"]
Partial == [state |-> "partial"]
Json(v) == [state |-> "json", value |-> v]
\* the start of a value, left by a json.dump that raised part-way
PartlyWritten == [state |-> "partial", part |-> "value"]
\* bytes of more than one write: no single JSON value
Mixed == [state |-> "mixed"]

\* opening one file truncates every file
OpenWEvery(files, path) == [q \in DOMAIN files |-> Partial]
\* the file is opened without truncating it
OpenAppend(files, path) ==
    IF files[path].state = "absent" THEN [files EXCEPT ![path] = Partial] ELSE files
\* open(path, "w"): creates or truncates the file
OpenW(files, path) == [files EXCEPT ![path] = Partial]

\* json.dump(v, f) to the end: the bytes go to the writer's own offset, which
\* starts at 0.  On the file as the writer's open left it they are the whole
\* content; on bytes written since, they replace the start of those bytes,
\* and all of them when v's text is no shorter
Written(file, v) ==
    IF file = Partial THEN {Json(v)} ELSE {Json(v), Mixed}

(***************************************************************************)
(* JSON values written by the handler.                                     *)
(***************************************************************************)
ErrorObj(msg) == [error |-> msg]
IsErrorObj(v) == DOMAIN v = {"error"}
Unset == [unset |-> TRUE]

\* json.dump(v, f): whether the encoder accepts the value
Encodable(v) == IF "encodable" \in DOMAIN v THEN v.encodable ELSE TRUE

(***************************************************************************)
(* Python dictionaries: functions from keys to values.                     *)
(***************************************************************************)
DictWithout(d, key) == [k \in DOMAIN d \ {key} |-> d[k]]
EmptyDict == [k \in {} |-> ""]

(***************************************************************************)
(* The extension under test.  Its namespace is that of                     *)
(* .clay/mcp/math_tools.py, with one binding whose value is None added;    *)
(* what its code does when executed is the input ext.                      *)
(***************************************************************************)
\* declared types: a class, or a generic alias with __origin__ and __args__
Class(name) == [origin |-> "", name |-> name, args |-> <<>>]
Generic(origin, name, args) == [origin |-> origin, name |-> name, args |-> args]
TInt == Class("int")
TFloat == Class("float")
TStr == Class("str")
TBool == Class("bool")
TList == Class("list")
TDict == Class("dict")
TNone == Class("NoneType")
TBytes == Class("bytes")
TAny == Class("Any")
ListOf(t) == Generic("list", "List", <<t>>)
DictOf(k, v) == Generic("dict", "Dict", <<k, v>>)
UnionOf(ts) == Generic("Union", "Union", ts)
OptionalOf(t) == UnionOf(<<t, TNone>>)
\* list[int], dict[str, int]: types.GenericAlias, with __origin__
BuiltinListOf(t) == Generic("list", "list", <<t>>)
BuiltinDictOf(k, v) == Generic("dict", "dict", <<k, v>>)
\* T | None: types.UnionType, which has __args__ and no __origin__
PipeOptional(t) == [origin |-> "", name |-> "UnionType", args |-> <<t, TNone>>]
\* an annotation written as a string, which get_type_hints evaluates in the
\* module's namespace
ForwardRef(name) == [origin |-> "ForwardRef", name |-> name, args |-> <<>>]
BuiltinNames == {"int", "float", "str", "bool", "list", "dict", "bytes"}
Resolves(t) == t.origin = "ForwardRef" => t.name \in BuiltinNames
NoAnnotation == Class("")

\* a parameter's default: inspect.Parameter.empty when it declares none
NoDefault == [declared |-> FALSE, value |-> "", encodable |-> TRUE]
Default(value) == [declared |-> TRUE, value |-> value, encodable |-> TRUE]
Param(name, type, default) ==
    [name |-> name, type |-> type, hasDefault |-> default.declared,
     default |-> default]

\* a binding of the module: a function (with __name__, signature and
\* __doc__), another value, None, or nothing
Doc(text) == [has |-> TRUE, text |-> text]
NoDoc == [has |-> FALSE, text |-> ""]
Function(name, sig, doc) ==
    [kind |-> "callable", name |-> name, sig |-> sig, doc |-> Doc(doc),
     introspection |-> "ok"]
NotAFunction(kind, name) ==
    [kind |-> kind, name |-> name, sig |-> <<>>, doc |-> NoDoc,
     introspection |-> "ok"]

\* the attributes a loaded module has
Attr(name) ==
    CASE name = "tool_add_numbers" ->
            Function(name, <<Param("number1", TInt, NoDefault),
                             Param("number2", TInt, NoDefault)>>,
                "Adds two numbers\n\n    Args:\n        number1: first\n    ")
      [] name = "tool_subtract_numbers" ->
            Function(name, <<Param("number1", TInt, NoDefault),
                             Param("number2", TInt, NoDefault),
                             Param("number3", TInt, Default("0"))>>,
                "Subtracts numbers\n\n    Args:\n        number1: from\n    ")
      [] name = "prompt_math_professor" ->
            Function(name, <<>>,
                "Creates a prompt\n\n    Args:\n        None\n    ")
      [] name = "resource_math_formula" ->
            Function(name, <<Param("formula_name", TStr, Default("pythagorean"))>>,
                "Provides formulas\n\n    Args:\n        formula_name: name\n    ")
      [] name = "main" -> Function(name, <<>>, "Define the extension")
      [] name = "__doc__" -> NotAFunction("value", name)
      [] name = "tool_disabled" -> NotAFunction("none", name)
      [] OTHER -> NotAFunction("absent", name)

NoFunc == NotAFunction("unset", "")

\* the names a payload may give as function_name
FnNames == {"tool_add_numbers", "prompt_math_professor", "resource_math_formula",
            "__doc__", "tool_disabled", "bogus_fn"}

\* the fields a payload may hold besides function_name, and their values
PayloadKeys == {"uri", "params", "number1", "number2"}
PayloadValue(k) ==
    CASE k = "uri" -> "math://pythagorean"
      [] k = "params" -> "{}"
      [] k = "number1" -> "3"
      [] OTHER -> "4"

\* one execution of a callable of the extension
Call(fn, args, kwargs) == [fn |-> fn, args |-> args, kwargs |-> kwargs]
\* what the callable returned: a value the JSON encoder accepts, or not
ReturnValue(call, encodable) == [value |-> call, encodable |-> encodable]

(***************************************************************************)
(* What the host and the file system guarantee.  Under "contract" the host *)
(* passes every argument, the result location can be written and the       *)
(* extension's code ends by returning or by raising an Exception.  Under   *)
(* "any" a write may raise OSError, the command line may be short and the  *)
(* extension's code may raise SystemExit, which is no Exception.           *)
(***************************************************************************)
LoadOutcomes(e) ==
    {"ok", "raise", "nospec", "hang"} \cup (IF e = "any" THEN {"exit"} ELSE {})
BodyOutcomes(e) ==
    {"return", "return_unencodable", "raise", "hang"}
        \cup (IF e = "any" THEN {"exit"} ELSE {})
IoOutcomes(e) == {"ok"} \cup (IF e = "any" THEN {"oserror"} ELSE {})
ArgvOutcomes(e) == {"full"} \cup (IF e = "any" THEN {"short"} ELSE {})
\* the status a SystemExit raised by the extension carries
ExitCodes == {0, 3}

\* str(e) of the exceptions the runs meet
MsgLoad == "No module named 'requests'"
MsgNoSpec == "'NoneType' object has no attribute 'loader'"
MsgPayload == "Expecting value: line 1 column 1 (char 0)"
MsgKey(k) == "'" \o k \o "'"
MsgNotCallable == "'str' object is not callable"
MsgBinding(fn) == fn \o "() got an unexpected or missing argument"
MsgBody == "unsupported operand type(s)"
MsgEncode == "Object of type bytes is not JSON serializable"
MsgOs == "[Errno 13] Permission denied"
\* the message without the name
MsgNotFoundBare(fn) == "Function not found"
MsgNotFound(fn) == "Function " \o fn \o " not found"

(***************************************************************************)
(* The Invocation Handler: python-handler.py.                              *)
(***************************************************************************)
Inv == {1, 2}                  \* the invocations the host may spawn
ExtensionFile == ".clay/mcp/math_tools.py"
\* another extension, with a module of the same name in another directory
OtherExtensionFile == "plugins/mcp/math_tools.py"
\* os.path.dirname(path): the path up to its last separator
RECURSIVE DirName(_)
DirName(path) ==
    IF Len(path) = 0 THEN ""
    ELSE IF SubSeq(path, Len(path), Len(path)) = "/"
    THEN SubSeq(path, 1, Len(path) - 1)
    ELSE DirName(SubSeq(path, 1, Len(path) - 1))
ModuleDir == DirName(ExtensionFile)
ScriptDir == "src/server/mcp/extensions"  \* sys.path[0] of a script run

HandlerTypes == {"resource", "tool", "prompt"}

\* the payload files the host may write: a JSON object with or without
\* function_name, holding any of the other fields
Payloads ==
    { [k \in keys \cup (IF fn = "" THEN {} ELSE {"function_name"}) |->
          IF k = "function_name" THEN fn ELSE PayloadValue(k)] :
      fn \in FnNames \cup {""}, keys \in SUBSET PayloadKeys }

Argv == [n : {"full", "short"}, file_path : {ExtensionFile},
         handler_type : HandlerTypes, payload_ok : BOOLEAN,
         payload : Payloads, result_path : {ResultPath}]

NoArgv == [n |-> "full", file_path |-> ExtensionFile, handler_type |-> "tool",
           payload_ok |-> TRUE, payload |-> EmptyDict, result_path |-> ResultPath]

\* the interpreter of a process carries over what an earlier run left
InterpreterShared(left_behind) ==
    IF left_behind = {}
    THEN [sys_path |-> <<ScriptDir>>, sys_modules |-> EmptyDict]
    ELSE CHOOSE state \in left_behind : TRUE
\* lines 53-64: each run is a script run, in an interpreter of its own; it
\* starts with the script's directory on sys.path and no "extension" in
\* sys.modules, whatever the runs before it left behind in theirs
InterpreterState(left_behind) ==
    [sys_path |-> <<ScriptDir>>, sys_modules |-> EmptyDict]

\* a handler process the host has spawned with the command line argv
Spawned(argv, pc) ==
    [pc |-> pc, argv |-> argv,
     sys_path |-> InterpreterState({}).sys_path,
     sys_modules |-> InterpreterState({}).sys_modules,
     loaded |-> FALSE, params |-> EmptyDict, function_name |-> "",
     func |-> NoFunc, result |-> Unset, exc |-> "", calls |-> <<>>,
     returned |-> "none", uncaught |-> "", exit_status |-> -1,
     trace |-> <<>>]

Step(i, changes) == h' = [h EXCEPT ![i] = changes]
Log(p, event) == Append(p.trace, event)

\* the call is made again after the callable raised, once
RaiseRetry(p, msg, event) ==
    IF p.pc = "in_call" /\ Len(p.calls) = 1
    THEN [p EXCEPT !.pc = "call", !.trace = Append(p.trace, event)]
    ELSE [p EXCEPT !.pc = "except", !.exc = msg, !.trace = Append(p.trace, event)]
\* an exception raised inside call_handler's try block (lines 12-46) is
\* caught by "except Exception" (line 47)
Raise(p, msg, event) ==
    [p EXCEPT !.pc = "except", !.exc = msg, !.trace = Log(p, event)]

\* an exception nothing catches ends the process: SystemExit with the status
\* it carries, any other with a traceback and status 1
Terminate(p, kind, status, event) ==
    [p EXCEPT !.pc = "done", !.uncaught = kind, !.exit_status = status,
              !.trace = Log(p, event)]

\* lines 53-61: the entry point reads the command line
H_Main(i) ==
    /\ h[i].pc = "main"
    /\ IF h[i].argv.n = "short"
       THEN Step(i, [h[i] EXCEPT !.pc = "done", !.exit_status = 1,
                                 !.trace = Log(h[i], "usage")])
       ELSE Step(i, [h[i] EXCEPT !.pc = "load"])
    /\ UNCHANGED <<env, prog, ext, l, fs>>

\* lines 14-16: sys.path gets the module's directory, once
InsertPath(path, dir) ==
    IF \E n \in 1..Len(path) : path[n] = dir THEN path ELSE <<dir>> \o path

\* the module object is made and its code is not run
H_LoadModuleNoExec(i) ==
    /\ h[i].pc = "load"
    /\ Step(i, [h[i] EXCEPT !.pc = "read",
                            !.sys_path = InsertPath(@, DirName(h[i].argv.file_path)),
                            !.sys_modules = ("extension" :> h[i].argv.file_path)])
    /\ UNCHANGED <<env, prog, ext, l, fs>>
\* lines 13-21: the module object is made and registered as "extension"
H_LoadModule(i) ==
    /\ h[i].pc = "load"
    /\ LET p == [h[i] EXCEPT !.sys_path = InsertPath(@, DirName(h[i].argv.file_path))]
       IN IF ext.load = "nospec"
          THEN Step(i, Raise(p, MsgNoSpec, "load_failed"))
          ELSE Step(i, [p EXCEPT !.pc = "exec_module",
                                 !.sys_modules = ("extension" :> h[i].argv.file_path)])
    /\ UNCHANGED <<env, prog, ext, l, fs>>

\* line 22: the module's code runs
H_ExecModule(i) ==
    /\ h[i].pc = "exec_module"
    /\ ext.load # "hang"
    /\ CASE ext.load = "ok" ->
              Step(i, [h[i] EXCEPT !.pc = "read", !.loaded = TRUE,
                                   !.trace = Log(h[i], "loaded")])
         [] ext.load = "raise" -> Step(i, Raise(h[i], MsgLoad, "load_failed"))
         [] OTHER ->
              Step(i, Terminate(h[i], "SystemExit", ext.exit_code, "load_exit"))
    /\ UNCHANGED <<env, prog, ext, l, fs>>

\* lines 24-26: the payload file is read and decoded
H_ReadParams(i) ==
    /\ h[i].pc = "read"
    /\ IF h[i].argv.payload_ok
       THEN Step(i, [h[i] EXCEPT !.pc = "resolve", !.params = h[i].argv.payload,
                                 !.trace = Log(h[i], "read")])
       ELSE Step(i, Raise(h[i], MsgPayload, "read_failed"))
    /\ UNCHANGED <<env, prog, ext, l, fs>>

\* line 30: getattr(module, function_name, None)
GetAttr(name) ==
    IF Attr(name).kind = "absent"
    THEN NotAFunction("none", name)
    ELSE Attr(name)
\* a value that is not callable is taken for no function
IsNoneOrNotCallable(f) == f.kind # "callable"
\* line 31: func is None
IsNone(f) == f.kind = "none"

\* a payload without function_name is answered like an unknown function
H_ResolveLenient(i) ==
    /\ h[i].pc = "resolve"
    /\ LET name == IF "function_name" \in DOMAIN h[i].params
                   THEN h[i].params["function_name"] ELSE "None"
           p == [h[i] EXCEPT !.params = DictWithout(@, "function_name"),
                             !.function_name = name,
                             !.func = GetAttr(name)]
       IN IF IsNone(p.func)
          THEN Step(i, [p EXCEPT !.pc = "write",
                                 !.result = ErrorObj(MsgNotFound(name)),
                                 !.trace = Log(p, "not_found")])
          ELSE Step(i, [p EXCEPT !.pc = "call", !.trace = Log(p, "resolved")])
    /\ UNCHANGED <<env, prog, ext, l, fs>>
\* lines 28-32: function_name leaves the payload and is looked up
H_Resolve(i) ==
    /\ h[i].pc = "resolve"
    /\ IF "function_name" \notin DOMAIN h[i].params
       THEN Step(i, Raise(h[i], MsgKey("function_name"), "resolve_failed"))
       ELSE LET name == h[i].params["function_name"]
                p == [h[i] EXCEPT !.params = DictWithout(@, "function_name"),
                                  !.function_name = name,
                                  !.func = GetAttr(name)]
            IN IF IsNone(p.func)
               THEN Step(i, [p EXCEPT !.pc = "write",
                                      !.result = ErrorObj(MsgNotFound(name)),
                                      !.trace = Log(p, "not_found")])
               ELSE Step(i, [p EXCEPT !.pc = "call", !.trace = Log(p, "resolved")])
    /\ UNCHANGED <<env, prog, ext, l, fs>>

\* func(*args, **kwargs): the positional arguments fill the first parameters,
\* the keywords name parameters among the rest, and no parameter without a
\* default is left out
Binds(sig, args, kwargs) ==
    /\ Len(args) <= Len(sig)
    /\ DOMAIN kwargs \subseteq {sig[n].name : n \in (Len(args) + 1)..Len(sig)}
    /\ \A n \in (Len(args) + 1)..Len(sig) :
          sig[n].hasDefault \/ sig[n].name \in DOMAIN kwargs

\* the two positional arguments in the other order
PositionalArgsSwapped(handler_type, params) ==
    IF handler_type = "resource" THEN <<params["params"], params["uri"]>> ELSE <<>>
\* the uri field is taken out of the payload for every handler_type
KeywordArgsWithoutUri(handler_type, params) ==
    IF handler_type = "resource" THEN EmptyDict ELSE DictWithout(params, "uri")
\* lines 35-40: the arguments the handler passes, by handler_type
PositionalArgs(handler_type, params) ==
    IF handler_type = "resource" THEN <<params["uri"], params["params"]>> ELSE <<>>
KeywordArgs(handler_type, params) ==
    IF handler_type = "resource" THEN EmptyDict ELSE params
\* lines 36-37: the payload fields a resource call reads
MissingKey(handler_type, params) ==
    IF handler_type # "resource" THEN ""
    ELSE IF "uri" \notin DOMAIN params THEN "uri"
    ELSE IF "params" \notin DOMAIN params THEN "params"
    ELSE ""

\* lines 34-40: the call is made; the callable's body starts when func is
\* callable and the arguments bind
H_Call(i) ==
    /\ h[i].pc = "call"
    /\ LET p == h[i]
           kind == p.argv.handler_type
       IN IF MissingKey(kind, p.params) # ""
          THEN Step(i, Raise(p, MsgKey(MissingKey(kind, p.params)), "call_failed"))
          ELSE LET args == PositionalArgs(kind, p.params)
                   kwargs == KeywordArgs(kind, p.params)
               IN IF p.func.kind # "callable"
                  THEN Step(i, Raise(p, MsgNotCallable, "call_failed"))
                  ELSE IF ~Binds(p.func.sig, args, kwargs)
                  THEN Step(i, Raise(p, MsgBinding(p.func.name), "call_failed"))
                  ELSE Step(i, [p EXCEPT
                          !.pc = "in_call",
                          !.calls = Append(@, Call(p.func.name, args, kwargs)),
                          !.trace = Log(p, "exec")])
    /\ UNCHANGED <<env, prog, ext, l, fs>>

\* lines 38, 40: the callable's body ends, by returning or by raising
H_Return(i) ==
    /\ h[i].pc = "in_call"
    /\ ext.body # "hang"
    /\ LET p == h[i]
           call == p.calls[Len(p.calls)]
       IN CASE ext.body \in {"return", "return_unencodable"} ->
                 Step(i, [p EXCEPT
                     !.pc = "write",
                     !.result = ReturnValue(call, ext.body = "return"),
                     !.trace = Log(p, "executed")])
            [] ext.body = "raise" -> Step(i, Raise(p, MsgBody, "call_raised"))
            [] OTHER ->
                 Step(i, Terminate(p, "SystemExit", ext.exit_code, "call_exit"))
    /\ UNCHANGED <<env, prog, ext, l, fs>>

\* line 43: open(result_path, "w")
H_WriteOpen(i) ==
    /\ h[i].pc = "write"
    /\ \E io \in IoOutcomes(env) :
          IF io = "ok"
          THEN /\ fs' = OpenW(fs, h[i].argv.result_path)
               /\ Step(i, [h[i] EXCEPT !.pc = "dump", !.trace = Log(h[i], "open")])
          ELSE /\ fs' = fs
               /\ Step(i, Raise(h[i], MsgOs, "write_failed"))
    /\ UNCHANGED <<env, prog, ext, l>>

\* lines 44-46: json.dump(result, f), the file is closed, return True
H_Dump(i) ==
    /\ h[i].pc = "dump"
    /\ \E io \in IoOutcomes(env) :
          IF ~Encodable(h[i].result)
          THEN /\ fs' = [fs EXCEPT ![h[i].argv.result_path] = PartlyWritten]
               /\ Step(i, Raise(h[i], MsgEncode, "write_failed"))
          ELSE IF io = "ok"
          THEN /\ \E content \in Written(fs[h[i].argv.result_path], h[i].result) :
                      fs' = [fs EXCEPT ![h[i].argv.result_path] = content]
               /\ Step(i, [h[i] EXCEPT !.pc = "exit", !.returned = "True",
                                       !.trace = Log(h[i], "written")])
          ELSE /\ fs' = fs
               /\ Step(i, Raise(h[i], MsgOs, "write_failed"))
    /\ UNCHANGED <<env, prog, ext, l>>

\* lines 47-49: the exception is caught and the result file is opened again
H_ExceptOpen(i) ==
    /\ h[i].pc = "except"
    /\ \E io \in IoOutcomes(env) :
          IF io = "ok"
          THEN /\ fs' = OpenW(fs, h[i].argv.result_path)
               /\ Step(i, [h[i] EXCEPT !.pc = "except_dump",
                                       !.trace = Log(h[i], "error_open")])
          ELSE /\ fs' = fs
               /\ Step(i, Terminate(h[i], "OSError", 1, "error_write_failed"))
    /\ UNCHANGED <<env, prog, ext, l>>

\* lines 50-51: json.dump({"error": str(e)}, f), return False
H_ExceptDump(i) ==
    /\ h[i].pc = "except_dump"
    /\ \E io \in IoOutcomes(env) :
          IF io = "ok"
          THEN /\ \E content \in Written(fs[h[i].argv.result_path],
                                         ErrorObj(h[i].exc)) :
                      fs' = [fs EXCEPT ![h[i].argv.result_path] = content]
               /\ Step(i, [h[i] EXCEPT !.pc = "exit", !.returned = "False",
                                       !.trace = Log(h[i], "error_written")])
          ELSE /\ fs' = fs
               /\ Step(i, Terminate(h[i], "OSError", 1, "error_write_failed"))
    /\ UNCHANGED <<env, prog, ext, l>>

\* the status does not follow call_handler's return value
ExitStatusZero(success) == 0
ExitStatusOne(success) == 1
\* line 64: sys.exit(0 if success else 1)
ExitStatus(success) == IF success = "True" THEN 0 ELSE 1

\* lines 63-64: call_handler has returned and the process exits
H_Exit(i) ==
    /\ h[i].pc = "exit"
    /\ Step(i, [h[i] EXCEPT !.pc = "done",
                            !.exit_status = ExitStatus(h[i].returned)])
    /\ UNCHANGED <<env, prog, ext, l, fs>>

HandlerNext(i) ==
    \/ H_Main(i) \/ H_LoadModule(i) \/ H_ExecModule(i) \/ H_ReadParams(i)
    \/ H_Resolve(i) \/ H_Call(i) \/ H_Return(i) \/ H_WriteOpen(i) \/ H_Dump(i)
    \/ H_ExceptOpen(i) \/ H_ExceptDump(i) \/ H_Exit(i)

(***************************************************************************)
(* The Extension Loader: python-loader.py.  Its pure parts first.          *)
(***************************************************************************)
\* Python's str methods, on the characters the model's texts use
IsSpace(c) == c \in {" ", "\n", "\t", "\r"}
RECURSIVE LStrip(_)
LStrip(s) ==
    IF Len(s) > 0 /\ IsSpace(SubSeq(s, 1, 1)) THEN LStrip(SubSeq(s, 2, Len(s))) ELSE s
RECURSIVE RStrip(_)
RStrip(s) ==
    IF Len(s) > 0 /\ IsSpace(SubSeq(s, Len(s), Len(s)))
    THEN RStrip(SubSeq(s, 1, Len(s) - 1)) ELSE s
Strip(s) == RStrip(LStrip(s))

StartsWith(s, prefix) ==
    Len(s) >= Len(prefix) /\ SubSeq(s, 1, Len(prefix)) = prefix

UpperCase == "ABCDEFGHIJKLMNOPQRSTUVWXYZ"
LowerCase == "abcdefghijklmnopqrstuvwxyz"
LowerChar(c) ==
    IF \E n \in 1..Len(UpperCase) : SubSeq(UpperCase, n, n) = c
    THEN LET n == CHOOSE m \in 1..Len(UpperCase) : SubSeq(UpperCase, m, m) = c
         IN SubSeq(LowerCase, n, n)
    ELSE c
RECURSIVE Lower(_)
Lower(s) ==
    IF Len(s) = 0 THEN s ELSE LowerChar(SubSeq(s, 1, 1)) \o Lower(SubSeq(s, 2, Len(s)))

\* s.split('\n')
RECURSIVE SplitLines(_)
SplitLines(s) ==
    IF \E n \in 1..Len(s) : SubSeq(s, n, n) = "\n"
    THEN LET n == CHOOSE m \in 1..Len(s) :
                     /\ SubSeq(s, m, m) = "\n"
                     /\ \A k \in 1..(m - 1) : SubSeq(s, k, k) # "\n"
         IN <<SubSeq(s, 1, n - 1)>> \o SplitLines(SubSeq(s, n + 1, Len(s)))
    ELSE <<s>>

\* the section names are matched as written, in lower case
IsSectionMarkerCaseSensitive(line) ==
    \/ StartsWith(line, "args:")
    \/ StartsWith(line, "arguments:")
    \/ StartsWith(line, "returns:")
\* line 27: the line starts a section of the docstring
IsSectionMarker(line) ==
    \/ StartsWith(Lower(line), "args:")
    \/ StartsWith(Lower(line), "arguments:")
    \/ StartsWith(Lower(line), "returns:")

\* lines 24-29: the lines before the first section marker, each stripped and
\* followed by a space
RECURSIVE Accumulate(_)
Accumulate(lines) ==
    IF Len(lines) = 0 \/ IsSectionMarker(Strip(Head(lines))) THEN ""
    ELSE Strip(Head(lines)) \o " " \o Accumulate(Tail(lines))

\* lines 14-31; doc.has is FALSE for a callable whose __doc__ is None
parse_docstring(doc) ==
    IF ~doc.has \/ doc.text = "" THEN ""
    ELSE Strip(Accumulate(SplitLines(Strip(doc.text))))

\* bool, a subclass of int, is taken for an integer
type_to_zod_schema_subclass(py_type) ==
    IF py_type \in {TInt, TBool} THEN "number().int()"
    ELSE IF py_type = TFloat THEN "number()"
    ELSE IF py_type = TStr THEN "string()"
    ELSE IF py_type = TList \/ py_type.origin = "list" THEN "array()"
    ELSE IF py_type = TDict \/ py_type.origin = "dict" THEN "object()"
    ELSE "any()"
\* lines 33-48
type_to_zod_schema(py_type) ==
    IF py_type = TInt THEN "number().int()"
    ELSE IF py_type = TFloat THEN "number()"
    ELSE IF py_type = TStr THEN "string()"
    ELSE IF py_type = TBool THEN "boolean()"
    ELSE IF py_type = TList \/ py_type.origin = "list" THEN "array()"
    ELSE IF py_type = TDict \/ py_type.origin = "dict" THEN "object()"
    ELSE "any()"

\* the name a type has inside another type's text
ArgName(t) == IF t = TNone THEN "None" ELSE t.name
RECURSIVE Joined(_, _)
Joined(ts, sep) ==
    IF Len(ts) = 0 THEN ""
    ELSE IF Len(ts) = 1 THEN ArgName(ts[1])
    ELSE ArgName(ts[1]) \o sep \o Joined(Tail(ts), sep)
\* str(param_type)
TypeStr(t) ==
    IF t.name = "UnionType" THEN Joined(t.args, " | ")
    ELSE IF t.origin = ""
    THEN (IF t = TAny THEN "typing.Any" ELSE "<class '" \o t.name \o "'>")
    ELSE IF t.name \in {"list", "dict"} THEN t.name \o "[" \o Joined(t.args, ", ") \o "]"
    ELSE "typing." \o t.name \o "[" \o Joined(t.args, ", ") \o "]"

JsonNull == [null |-> TRUE]
\* the declared default is not recorded
JsonValueDropped(default) == [null |-> TRUE]
\* a default value as json.dump sees it: None is null
JsonValue(default) ==
    IF default.value = "None" THEN JsonNull
    ELSE [value |-> default.value, encodable |-> default.encodable]

\* lines 66-74: an Optional type gives up its first member that is not None
IsOptionalType(t) ==
    t.origin = "Union" /\ \E n \in 1..Len(t.args) : t.args[n] = TNone
NonNoneArgs(t) == SelectSeq(t.args, LAMBDA a : a # TNone)
Unwrapped(t) ==
    IF IsOptionalType(t) /\ Len(NonNoneArgs(t)) > 0 THEN Head(NonNoneArgs(t)) ELSE t

\* line 62: type_hints.get(param_name, Any); get_type_hints has evaluated
\* the annotations written as strings
TypeHint(param) ==
    IF param.type = NoAnnotation THEN TAny
    ELSE IF param.type.origin = "ForwardRef" THEN Class(param.type.name)
    ELSE param.type

\* a default does not make the parameter optional
IsOptionalByType(type_optional, has_default) == type_optional
\* line 81: is_optional or has_default
IsOptional(type_optional, has_default) == type_optional \/ has_default

\* lines 62-83: one parameter's descriptor
ParameterInfo(param) ==
    LET param_type == Unwrapped(TypeHint(param))
        has_default == param.hasDefault
        is_optional == IsOptionalType(TypeHint(param))
    IN [type |-> TypeStr(param_type),
        zod_type |-> type_to_zod_schema(param_type),
        has_default |-> has_default,
        default_value |-> IF has_default THEN JsonValue(param.default) ELSE JsonNull,
        is_optional |-> IsOptional(is_optional, has_default),
        description |-> ""]

\* the receiver is analysed like any parameter
AnalysedParamsWithSelf(sig) == sig
\* lines 56-60: the parameters analysed, 'self' left out
AnalysedParams(sig) == SelectSeq(sig, LAMBDA q : q.name # "self")

\* lines 50-89; inspect.signature and get_type_hints raise for some callables
analyze_function(func) ==
    LET ps == AnalysedParams(func.sig)
    IN [name |-> func.name,
        parameters |-> [n \in {ps[k].name : k \in 1..Len(ps)} |->
                           ParameterInfo(
                               ps[CHOOSE k \in 1..Len(ps) : ps[k].name = n])],
        description |-> parse_docstring(func.doc)]

\* the role prefixes and the slices that remove them (lines 126-127, 145-146,
\* 165-166)
ToolPrefixLen == 5
ResourcePrefixLen == 9
PromptPrefixLen == 7
RolePrefix(role) ==
    CASE role = "tools" -> "tool_"
      [] role = "resources" -> "resource_"
      [] OTHER -> "prompt_"
RoleSlice(role) ==
    CASE role = "tools" -> ToolPrefixLen
      [] role = "resources" -> ResourcePrefixLen
      [] OTHER -> PromptPrefixLen
BareName(role, name) ==
    IF StartsWith(name, RolePrefix(role))
    THEN SubSeq(name, RoleSlice(role) + 1, Len(name))
    ELSE name

\* the id is joined to the name also when it is empty
DescriptorIdJoined(manifest_id, bare) == manifest_id \o "-" \o bare
\* lines 130, 149, 169
DescriptorId(manifest_id, bare) ==
    IF manifest_id # "" THEN manifest_id \o "-" \o bare ELSE bare

\* the template is made of the declared name, prefix included
TemplateOfDeclaredName(role, name) == name \o "://{path}"
\* line 153: f"{resource_name}://{{path}}", resource_name being the name
\* lines 145-146 have stripped
Template(role, name) == BareName(role, name) \o "://{path}"

\* lines 129-134, 148-154, 168-173: the descriptor appended for one callable
Descriptor(role, manifest_id, func_info) ==
    LET bare == BareName(role, func_info.name)
        base == [id |-> DescriptorId(manifest_id, bare),
                 function_name |-> func_info.name,
                 description |-> func_info.description,
                 parameters |-> func_info.parameters]
    IN IF role = "resources"
       THEN base @@ [template |-> Template(role, func_info.name)]
       ELSE base

\* dict.get(key, default)
Get(d, key, default) == IF key \in DOMAIN d THEN d[key] ELSE default

\* json.dump(result, f) of a manifest: every default value must encode
DescriptorEncodable(d) ==
    \A n \in DOMAIN d.parameters :
        LET v == d.parameters[n].default_value
        IN "encodable" \in DOMAIN v => v.encodable
ManifestEncodable(m) ==
    \A role \in {"tools", "resources", "prompts"} \cap DOMAIN m :
        \A k \in 1..Len(m[role]) : DescriptorEncodable(m[role][k])

(***************************************************************************)
(* The registration objects main() may return.                             *)
(***************************************************************************)
\* a callable that inspect.signature or get_type_hints rejects
Unanalysable(name) == [Function(name, <<>>, "") EXCEPT !.introspection = "raise"]
\* a function as the module declares it: get_type_hints raises NameError when
\* an annotation written as a string names nothing the module knows
Declared(name, sig, doc) ==
    [Function(name, sig, doc) EXCEPT
        !.introspection =
            IF \A n \in 1..Len(sig) : Resolves(sig[n].type) THEN "ok" ELSE "raise"]
\* a callable with a default value json cannot encode
SetDefault == [declared |-> TRUE, value |-> "set()", encodable |-> FALSE]

ToolPool ==
    {Attr("tool_add_numbers"), Attr("tool_subtract_numbers"),
     NotAFunction("value", "tool_add_numbers"),
     Unanalysable("tool_forward_ref"),
     Function("tool_collect", <<Param("seen", NoAnnotation, SetDefault)>>, "")}
ResourceLists ==
    {<<>>, <<Attr("resource_math_formula")>>, <<Attr("tool_add_numbers")>>,
     <<NotAFunction("value", "resource_math_formula")>>}
\* a callable that is no attribute of the module: __name__ is "<lambda>"
Lambda == [Function("<lambda>", <<>>, "") EXCEPT !.doc = NoDoc]
PromptLists ==
    {<<>>, <<Attr("prompt_math_professor")>>,
     <<NotAFunction("value", "prompt_math_professor")>>, <<Lambda>>}

MaxTools == 2
RECURSIVE ListsUpTo(_, _)
ListsUpTo(pool, n) ==
    IF n = 0 THEN {<<>>}
    ELSE ListsUpTo(pool, n - 1)
            \cup {Append(xs, x) : xs \in {ys \in ListsUpTo(pool, n - 1) : Len(ys) = n - 1},
                                  x \in pool}

Metadata ==
    {EmptyDict,
     [id |-> ""],
     [id |-> "math-tools", description |-> "Mathematical tools and formulas",
      version |-> "1.0.0", author |-> "Clay"]}

\* a registration with or without each of the three sequences
Registrations ==
    { meta @@ tools @@ resources @@ prompts :
        meta \in Metadata,
        tools \in {EmptyDict} \cup {[tools |-> xs] : xs \in ListsUpTo(ToolPool, MaxTools)},
        resources \in {EmptyDict} \cup {[resources |-> xs] : xs \in ResourceLists},
        prompts \in {EmptyDict} \cup {[prompts |-> xs] : xs \in PromptLists} }

(***************************************************************************)
(* The loader process.                                                     *)
(***************************************************************************)
LoaderArgv == [n : {"full", "short"}, file_path : {ExtensionFile},
               output_path : {OutputPath}]

LoaderSpawned(argv, pc) ==
    [pc |-> pc, argv |-> argv,
     sys_path |-> InterpreterState({}).sys_path,
     sys_modules |-> InterpreterState({}).sys_modules,
     loaded |-> FALSE, main_calls |-> 0, extension_def |-> EmptyDict,
     result |-> EmptyDict, role |-> "", entries |-> <<>>, done |-> <<>>,
     exc |-> "", returned |-> "none", uncaught |-> "", exit_status |-> -1,
     trace |-> <<>>]

LStep(changes) == l' = changes

\* lines 187-193: the entry point reads the command line
L_Main ==
    /\ l.pc = "main"
    /\ IF l.argv.n = "short"
       THEN LStep([l EXCEPT !.pc = "done", !.exit_status = 1,
                            !.trace = Log(l, "usage")])
       ELSE LStep([l EXCEPT !.pc = "load"])
    /\ UNCHANGED <<env, prog, ext, h, fs>>

\* lines 94-102: the module object is made and registered as "extension"
L_LoadModule ==
    /\ l.pc = "load"
    /\ LET p == [l EXCEPT !.sys_path = InsertPath(@, DirName(l.argv.file_path))]
       IN IF ext.load = "nospec"
          THEN LStep(Raise(p, MsgNoSpec, "load_failed"))
          ELSE LStep([p EXCEPT !.pc = "exec_module",
                               !.sys_modules = ("extension" :> l.argv.file_path)])
    /\ UNCHANGED <<env, prog, ext, h, fs>>

\* line 103: the module's code runs
L_ExecModule ==
    /\ l.pc = "exec_module"
    /\ ext.load # "hang"
    /\ CASE ext.load = "ok" ->
              LStep([l EXCEPT !.pc = "entry_point", !.loaded = TRUE,
                              !.trace = Log(l, "loaded")])
         [] ext.load = "raise" -> LStep(Raise(l, MsgLoad, "load_failed"))
         [] OTHER -> LStep(Terminate(l, "SystemExit", ext.exit_code, "load_exit"))
    /\ UNCHANGED <<env, prog, ext, h, fs>>

\* any attribute named main is taken for the entry point
HasEntryPointAnyAttribute(main) == main # "absent"
\* line 107: hasattr(module, "main") and callable(module.main)
HasEntryPoint(main) == main = "callable"

MsgNoGet == "'NoneType' object has no attribute 'get'"
MsgMain == "main() failed"
MsgIntrospect == "name 'Image' is not defined"

\* lines 105-116: result = {}; main() is called when the module has one, and
\* the basic extension info is read from what it returns
L_EntryPoint ==
    /\ l.pc = "entry_point"
    /\ IF ~HasEntryPoint(ext.main)
       THEN LStep([l EXCEPT !.pc = "write", !.result = EmptyDict])
       ELSE /\ ext.main_outcome # "hang"
            /\ LET p == [l EXCEPT !.main_calls = @ + 1, !.result = EmptyDict]
               IN CASE ext.main_outcome = "return" ->
                         LStep([p EXCEPT
                             !.pc = "entries",
                             !.extension_def = ext.registration,
                             !.result =
                                 [id |-> Get(ext.registration, "id", ""),
                                  description |-> Get(ext.registration, "description", ""),
                                  author |-> Get(ext.registration, "author", ""),
                                  version |-> Get(ext.registration, "version", ""),
                                  format |-> "dynamic"],
                             !.role = "tools",
                             !.entries = Get(ext.registration, "tools", <<>>),
                             !.done = <<>>,
                             !.trace = Log(p, "registered")])
                    [] ext.main_outcome = "return_none" ->
                         LStep(Raise(p, MsgNoGet, "entry_failed"))
                    [] ext.main_outcome = "raise" ->
                         LStep(Raise(p, MsgMain, "entry_failed"))
                    [] OTHER ->
                         LStep(Terminate(p, "SystemExit", ext.exit_code, "entry_exit"))
    /\ UNCHANGED <<env, prog, ext, h, fs>>

\* every entry is taken for a callable
CallableAlways(func) == TRUE
\* lines 121, 140, 160: callable(func)
Callable(func) == func.kind = "callable"

NextRole(role) ==
    CASE role = "tools" -> "resources"
      [] role = "resources" -> "prompts"
      [] OTHER -> ""

\* lines 118-174: one turn of the loop over tools, resources or prompts; the
\* list is stored in result when the loop ends
L_Entries ==
    /\ l.pc = "entries"
    /\ IF l.entries = <<>>
       THEN LET result == l.result @@ (l.role :> l.done)
                role == NextRole(l.role)
            IN IF role = ""
               THEN LStep([l EXCEPT !.pc = "write", !.result = result,
                                    !.role = "", !.done = <<>>])
               ELSE LStep([l EXCEPT
                       !.result = result, !.role = role,
                       !.entries = Get(l.extension_def, role, <<>>),
                       !.done = <<>>])
       ELSE LET func == Head(l.entries)
            IN IF ~Callable(func)
               THEN LStep([l EXCEPT !.entries = Tail(@)])
               ELSE IF func.introspection = "raise"
               THEN LStep(Raise(l, MsgIntrospect, "analysis_failed"))
               ELSE LStep([l EXCEPT
                       !.entries = Tail(@),
                       !.done = Append(@, Descriptor(l.role, l.result["id"],
                                                     analyze_function(func)))])
    /\ UNCHANGED <<env, prog, ext, h, fs>>

\* line 177: open(output_path, "w")
L_WriteOpen ==
    /\ l.pc = "write"
    /\ \E io \in IoOutcomes(env) :
          IF io = "ok"
          THEN /\ fs' = OpenW(fs, l.argv.output_path)
               /\ LStep([l EXCEPT !.pc = "dump", !.trace = Log(l, "open")])
          ELSE /\ fs' = fs
               /\ LStep(Raise(l, MsgOs, "write_failed"))
    /\ UNCHANGED <<env, prog, ext, h>>

\* lines 178-180: json.dump(result, f), the file is closed, return True
L_Dump ==
    /\ l.pc = "dump"
    /\ \E io \in IoOutcomes(env) :
          IF ~ManifestEncodable(l.result)
          THEN /\ fs' = [fs EXCEPT ![l.argv.output_path] = PartlyWritten]
               /\ LStep(Raise(l, MsgEncode, "write_failed"))
          ELSE IF io = "ok"
          THEN /\ \E content \in Written(fs[l.argv.output_path], l.result) :
                      fs' = [fs EXCEPT ![l.argv.output_path] = content]
               /\ LStep([l EXCEPT !.pc = "exit", !.returned = "True",
                                  !.trace = Log(l, "written")])
          ELSE /\ fs' = fs
               /\ LStep(Raise(l, MsgOs, "write_failed"))
    /\ UNCHANGED <<env, prog, ext, h>>

\* lines 181-183: the exception is caught and the output file is opened again
L_ExceptOpen ==
    /\ l.pc = "except"
    /\ \E io \in IoOutcomes(env) :
          IF io = "ok"
          THEN /\ fs' = OpenW(fs, l.argv.output_path)
               /\ LStep([l EXCEPT !.pc = "except_dump",
                                  !.trace = Log(l, "error_open")])
          ELSE /\ fs' = fs
               /\ LStep(Terminate(l, "OSError", 1, "error_write_failed"))
    /\ UNCHANGED <<env, prog, ext, h>>

\* the error is added to what was built of the manifest
L_ExceptDumpWithResult ==
    /\ l.pc = "except_dump"
    /\ fs' = [fs EXCEPT ![l.argv.output_path] =
                  Json(ErrorObj(l.exc) @@ l.result @@ (l.role :> l.done))]
    /\ LStep([l EXCEPT !.pc = "exit", !.returned = "False",
                       !.trace = Log(l, "error_written")])
    /\ UNCHANGED <<env, prog, ext, h>>
\* lines 184-185: json.dump({"error": str(e)}, f), return False
L_ExceptDump ==
    /\ l.pc = "except_dump"
    /\ \E io \in IoOutcomes(env) :
          IF io = "ok"
          THEN /\ \E content \in Written(fs[l.argv.output_path], ErrorObj(l.exc)) :
                      fs' = [fs EXCEPT ![l.argv.output_path] = content]
               /\ LStep([l EXCEPT !.pc = "exit", !.returned = "False",
                                  !.trace = Log(l, "error_written")])
          ELSE /\ fs' = fs
               /\ LStep(Terminate(l, "OSError", 1, "error_write_failed"))
    /\ UNCHANGED <<env, prog, ext, h>>

\* the status does not follow load_extension's return value
LoaderExitStatusZero(success) == 0
\* line 196: sys.exit(0 if success else 1)
LoaderExitStatus(success) == IF success = "True" THEN 0 ELSE 1

\* lines 195-196: load_extension has returned and the process exits
L_Exit ==
    /\ l.pc = "exit"
    /\ LStep([l EXCEPT !.pc = "done",
                       !.exit_status = LoaderExitStatus(l.returned)])
    /\ UNCHANGED <<env, prog, ext, h, fs>>

LoaderNext ==
    \/ L_Main \/ L_LoadModule \/ L_ExecModule \/ L_EntryPoint \/ L_Entries
    \/ L_WriteOpen \/ L_Dump \/ L_ExceptOpen \/ L_ExceptDump \/ L_Exit

(***************************************************************************)
(* The runs.                                                               *)
(***************************************************************************)
MainKinds == {"absent", "value", "callable"}
MainOutcomes(e) ==
    {"return", "return_none", "raise", "hang"}
        \cup (IF e = "any" THEN {"exit"} ELSE {})
NoLoaderArgv == [n |-> "full", file_path |-> ExtensionFile, output_path |-> OutputPath]

\* the extension file of a handler run: what loading it and calling into it do
HandlerExtensions(e) ==
    [load : LoadOutcomes(e), body : BodyOutcomes(e),
     exit_code : IF e = "any" THEN ExitCodes ELSE {0},
     main : {"callable"}, main_outcome : {"return"}, registration : {EmptyDict}]

\* the extension file of a loader run: what loading it does, whether it has
\* a main and what main() does and returns
LoaderExtensions(e) ==
    { x \in [load : LoadOutcomes(e), body : {"return"},
             exit_code : IF e = "any" THEN ExitCodes ELSE {0},
             main : MainKinds, main_outcome : MainOutcomes(e),
             registration : Registrations] :
        /\ x.load # "ok" => x.main = "absent"
        /\ x.main # "callable" => x.main_outcome = "return"
        /\ x.main_outcome # "return" \/ x.main # "callable"
              => x.registration = EmptyDict
        /\ x.exit_code # 0 => "exit" \in {x.load, x.main_outcome} }

\* an input the run never reads is held at one value
HandlerInputs(e) ==
    { in \in [ext : HandlerExtensions(e), argv : Argv] :
        /\ in.argv.n \in ArgvOutcomes(e)
        /\ in.ext.exit_code # 0 => "exit" \in {in.ext.load, in.ext.body}
        /\ in.argv.n = "short" => in.ext.load = "ok"
        /\ in.argv.n = "short" \/ in.ext.load # "ok" => in.argv.payload_ok
        /\ in.argv.n = "short" \/ in.ext.load # "ok" \/ ~in.argv.payload_ok
              => /\ in.argv.payload = EmptyDict
                 /\ in.argv.handler_type = "tool"
                 /\ in.ext.body = "return" }

InitHandler(e) ==
    /\ prog = "handler"
    /\ \E in \in HandlerInputs(e) :
          /\ ext = in.ext
          /\ h = [i \in Inv |-> IF i = 1 THEN Spawned(in.argv, "main")
                                ELSE Spawned(NoArgv, "idle")]
    /\ l = LoaderSpawned(NoLoaderArgv, "idle")

InitLoader(e) ==
    /\ prog = "loader"
    /\ ext \in LoaderExtensions(e)
    /\ h = [i \in Inv |-> Spawned(NoArgv, "idle")]
    /\ \E argv \in LoaderArgv :
          /\ argv.n \in ArgvOutcomes(e)
          /\ l = LoaderSpawned(argv, "main")

InitIn(e) ==
    /\ env = e
    /\ fs = [path \in Paths |-> Absent]
    /\ InitHandler(e) \/ InitLoader(e)

\* the declared types and default values of the parameters the analyser is
\* run on
DeclaredTypes ==
    {TInt, TFloat, TStr, TBool, TList, TDict, TBytes, TAny, TNone, NoAnnotation,
     ListOf(TInt), DictOf(TStr, TInt), BuiltinListOf(TInt), BuiltinDictOf(TStr, TInt),
     UnionOf(<<TInt, TStr>>), OptionalOf(TInt), OptionalOf(TBool),
     OptionalOf(ListOf(TInt)), UnionOf(<<TNone, TStr>>),
     UnionOf(<<TInt, TStr, TNone>>), PipeOptional(TInt),
     ForwardRef("str"), ForwardRef("Image")}
NoneDefault == Default("None")
DeclaredDefaults == {NoDefault, Default("0"), NoneDefault, SetDefault}
\* the parameter lists of functions that take a receiver: (self),
\* (self, x: int), (self, x: int = 0, y: str), and (x, y)
ReceiverSignatures ==
    {<<Param("self", NoAnnotation, NoDefault)>>,
     <<Param("self", NoAnnotation, NoDefault), Param("x", TInt, NoDefault)>>,
     <<Param("self", NoAnnotation, NoDefault), Param("x", TInt, Default("0")),
       Param("y", TStr, NoDefault)>>,
     <<Param("x", NoAnnotation, NoDefault), Param("y", NoAnnotation, NoDefault)>>}
\* the documentation texts the callables carry
DocTexts ==
    {"Adds two numbers\n\n    Args:\n        number1: first\n    ",
     "First line\n  second line\nReturns:\n  a value\nmore",
     "ARGUMENTS: none\nnever seen",
     "  \n  Summary.  \n\n  Details here\n  returns: x\n  Args: y",
     "No header at all\nsecond",
     "Argsort: no header\nArgs : neither\nargs: header\ntail",
     "Returns the sum",
     "   ",
     ""}
\* a tool with one parameter, f(a: int, b: int = 0), the functions with a
\* receiver and the documented ones, one of them with no __doc__
Probes ==
    {Declared("tool_probe", <<Param("x", t, d)>>, "") :
        t \in DeclaredTypes, d \in DeclaredDefaults}
    \cup {Declared("tool_f", <<Param("a", TInt, NoDefault),
                               Param("b", TInt, Default("0"))>>, "")}
    \cup {Declared("tool_method", sig, "") : sig \in ReceiverSignatures}
    \cup {Declared("tool_doc", <<>>, text) : text \in DocTexts}
    \cup {[Declared("tool_doc", <<>>, "") EXCEPT !.doc = NoDoc]}

\* a loader run on an extension whose main() registers one of the probes
InitAnalysis ==
    /\ env = "contract"
    /\ prog = "loader"
    /\ fs = [path \in Paths |-> Absent]
    /\ h = [i \in Inv |-> Spawned(NoArgv, "idle")]
    /\ l = LoaderSpawned(NoLoaderArgv, "main")
    /\ \E f \in Probes :
          ext = [load |-> "ok", body |-> "return", exit_code |-> 0,
                 main |-> "callable", main_outcome |-> "return",
                 registration |-> [id |-> "probe", tools |-> <<f>>]]

(***************************************************************************)
(* The host.  It spawns the loader once for an extension file and a        *)
(* handler for each call, as separate processes that may run side by side; *)
(* it chooses the command line of each.                                    *)
(***************************************************************************)
Running(p) == p.pc \notin {"idle", "done"}
\* sys.path and sys.modules of the runs that have ended
LeftBehind ==
    {[sys_path |-> h[j].sys_path, sys_modules |-> h[j].sys_modules] :
        j \in {k \in Inv : h[k].pc = "done"}}
    \cup (IF l.pc = "done"
          THEN {[sys_path |-> l.sys_path, sys_modules |-> l.sys_modules]}
          ELSE {})
\* whether the run starts beside a run in progress, after a run that ended,
\* or first
SpawnEvent ==
    IF Running(l) \/ \E j \in Inv : Running(h[j]) THEN "spawned_beside"
    ELSE IF LeftBehind # {} THEN "spawned_after"
    ELSE "spawned"

HostPayloads ==
    {[k \in {"function_name", "number1", "number2"} |->
         IF k = "function_name" THEN "tool_add_numbers" ELSE PayloadValue(k)],
     [k \in {"function_name"} |-> "bogus_fn"]}
HostArgv ==
    [n : {"full"}, file_path : {ExtensionFile, OtherExtensionFile},
     handler_type : {"tool"}, payload_ok : {TRUE}, payload : HostPayloads,
     result_path : {ResultPath, OtherResultPath}]
HostLoaderArgv ==
    [n : {"full"}, file_path : {ExtensionFile}, output_path : {OutputPath}]

\* the host starts python-handler.py for a call, once the loader has run;
\* invocations are numbered as spawned
Host_SpawnHandler(i) ==
    /\ h[i].pc = "idle"
    /\ l.pc = "done"
    /\ \A j \in Inv : j < i => h[j].pc # "idle"
    /\ \E argv \in HostArgv :
          Step(i, [Spawned(argv, "main") EXCEPT
                      !.sys_path = InterpreterState(LeftBehind).sys_path,
                      !.sys_modules = InterpreterState(LeftBehind).sys_modules,
                      !.trace = <<SpawnEvent>>])
    /\ UNCHANGED <<env, prog, ext, l, fs>>

\* the host starts python-loader.py, when the extension is registered
Host_SpawnLoader ==
    /\ l.pc = "idle"
    /\ \E argv \in HostLoaderArgv :
          LStep([LoaderSpawned(argv, "main") EXCEPT
                    !.sys_path = InterpreterState(LeftBehind).sys_path,
                    !.sys_modules = InterpreterState(LeftBehind).sys_modules,
                    !.trace = <<SpawnEvent>>])
    /\ UNCHANGED <<env, prog, ext, h, fs>>

HostNext == Host_SpawnLoader \/ \E i \in Inv : Host_SpawnHandler(i)

\* the extensions the host runs side by side: loading and the callable
\* succeed or fail, and main() registers one tool
HostExtensions ==
    [load : {"ok", "raise"}, body : {"return", "return_unencodable"},
     exit_code : {0}, main : {"callable"}, main_outcome : {"return"},
     registration : {[id |-> "math-tools", tools |-> <<Attr("tool_add_numbers")>>]}]

InitHost ==
    /\ env = "contract"
    /\ prog = "host"
    /\ ext \in HostExtensions
    /\ fs = [path \in Paths |-> Absent]
    /\ h = [i \in Inv |-> Spawned(NoArgv, "idle")]
    /\ l = LoaderSpawned(NoLoaderArgv, "idle")

Init == InitIn("contract")
InitAny == \E e \in {"contract", "any"} : InitIn(e)

Next == LoaderNext \/ \E i \in Inv : HandlerNext(i)

Spec == Init /\ [][Next]_vars
SpecAny == InitAny /\ [][Next]_vars
SpecAnalysis == InitAnalysis /\ [][LoaderNext]_vars
NextHost == HostNext \/ Next
SpecHost == InitHost /\ [][NextHost]_vars

(***************************************************************************)
(* Properties of the Invocation Handler.  They are stated over the inputs  *)
(* of a run (the extension file, the command line, the payload) and what   *)
(* the run leaves behind (the result file, the exit status, the calls it   *)
(* made), for a run that has ended.                                        *)
(***************************************************************************)
Ended(i) == h[i].pc = "done"
Payload(i) == h[i].argv.payload
ResultFile(i) == fs[h[i].argv.result_path]
Holds(file, v) == file.state = "json" /\ file.value = v
HoldsError(file) == file.state = "json" /\ IsErrorObj(file.value)
\* the file holds what the callable returned
HoldsReturnValue(i) ==
    /\ h[i].calls # <<>>
    /\ ResultFile(i).state = "json"
    /\ ResultFile(i).value = [value |-> h[i].calls[Len(h[i].calls)], encodable |-> TRUE]

\* the run got as far as reading a payload that names a function
NamesFunction(i) ==
    /\ h[i].argv.n = "full"
    /\ ext.load = "ok"
    /\ h[i].argv.payload_ok
    /\ "function_name" \in DOMAIN Payload(i)
RequestedName(i) == Payload(i)["function_name"]
\* the arguments the payload holds
RequestArgs(i) == [k \in DOMAIN Payload(i) \ {"function_name"} |-> Payload(i)[k]]
\* the handler reaches the call of a callable and the arguments bind
CallBinds(i) ==
    /\ NamesFunction(i)
    /\ Attr(RequestedName(i)).kind = "callable"
    /\ IF h[i].argv.handler_type = "resource"
       THEN /\ {"uri", "params"} \subseteq DOMAIN Payload(i)
            /\ Binds(Attr(RequestedName(i)).sig,
                     <<Payload(i)["uri"], Payload(i)["params"]>>, EmptyDict)
       ELSE Binds(Attr(RequestedName(i)).sig, <<>>, RequestArgs(i))

\* C1. After every run of the handler, whatever the outcome of module
\* loading, payload reading, function resolution, the call, the
\* serialisation and the write of the result, the result file holds the
\* callable's return value or an {error: message} object, and no run ends by
\* an uncaught exception.  (Stated for the runs with a full command line.)
C1_ResultAlwaysWritten ==
    \A i \in Inv :
        Ended(i) /\ h[i].argv.n = "full" =>
            /\ h[i].uncaught = ""
            /\ HoldsReturnValue(i) \/ HoldsError(ResultFile(i))

\* C2. When function_name names no attribute of the loaded module, no
\* callable is invoked, the result file holds exactly
\* {"error": "Function <function_name> not found"} and the exit status is 0.
C2_AbsentFunctionReported ==
    \A i \in Inv :
        Ended(i) /\ NamesFunction(i) /\ Attr(RequestedName(i)).kind = "absent" =>
            /\ h[i].calls = <<>>
            /\ Holds(ResultFile(i),
                     [error |-> "Function " \o RequestedName(i) \o " not found"])
            /\ h[i].exit_status = 0

C2_Witness ==
    \E i \in Inv :
        /\ Ended(i) /\ NamesFunction(i)
        /\ RequestedName(i) = "bogus_fn"
        /\ Attr(RequestedName(i)).kind = "absent"
        /\ h[i].argv.handler_type = "resource"
        /\ h[i].exit_status = 0

\* The exception a run raises, read off its inputs: str(e), or "" when no
\* step raises.  The sources are those of C3: loading the module, reading
\* the payload, a parameter mismatch, the callable, the serialisation of its
\* return value.
ExpectedException(i) ==
    IF ext.load = "nospec" THEN MsgNoSpec
    ELSE IF ext.load = "raise" THEN MsgLoad
    ELSE IF ext.load = "ok" /\ ~h[i].argv.payload_ok THEN MsgPayload
    ELSE IF NamesFunction(i) /\ Attr(RequestedName(i)).kind = "callable"
            /\ MissingKey(h[i].argv.handler_type, RequestArgs(i)) = ""
            /\ ~CallBinds(i)
         THEN RequestedName(i) \o "() got an unexpected or missing argument"
    ELSE IF CallBinds(i) /\ ext.body = "raise" THEN MsgBody
    ELSE IF CallBinds(i) /\ ext.body = "return_unencodable" THEN MsgEncode
    ELSE ""

C4_ZeroWheneverWritten ==
    \A i \in Inv :
        Ended(i) /\ h[i].argv.n = "full" =>
            (h[i].exit_status = 0 <=> ResultFile(i).state = "json")

\* C4, amended.  The exit status is 0 when the result written is the one the
\* try block produced (the return value or the "not found" object), and it
\* is not 0 whenever an exception was caught, also when the {error} object
\* was then written.
C4_ZeroOnlyWithoutException ==
    \A i \in Inv :
        Ended(i) /\ h[i].argv.n = "full" =>
            /\ h[i].returned = "True" =>
                  /\ h[i].exit_status = 0
                  /\ HoldsReturnValue(i) \/ HoldsError(ResultFile(i))
                  /\ h[i].exc = ""
            /\ h[i].exc # "" => h[i].exit_status \notin {0, -1}
            /\ ExpectedException(i) # "" => h[i].exc # ""

C4_Witness ==
    \E i \in Inv :
        /\ Ended(i)
        /\ ExpectedException(i) # ""
        /\ Holds(ResultFile(i), [error |-> ExpectedException(i)])
        /\ h[i].exit_status = 1

\* C5. With handler_type "resource" the callable is invoked with exactly two
\* positional arguments, the payload's uri and params, and no keyword
\* argument: no other field of the payload reaches it.
C5_ResourcePositional ==
    \A i \in Inv :
        h[i].argv.handler_type = "resource" =>
            \A k \in 1..Len(h[i].calls) :
                /\ h[i].calls[k].args = <<Payload(i)["uri"], Payload(i)["params"]>>
                /\ DOMAIN h[i].calls[k].kwargs = {}

C5_Witness ==
    \E i \in Inv :
        /\ h[i].argv.handler_type = "resource"
        /\ DOMAIN Payload(i) = {"function_name", "uri", "params", "number1"}
        /\ Len(h[i].calls) = 1
        /\ h[i].calls[1].fn = "tool_add_numbers"
        /\ Ended(i)

\* C6. With any other handler_type the callable is invoked with exactly the
\* payload's fields other than function_name as keyword arguments, each
\* under its own name, and with no positional argument.
C6_KeywordsAreThePayload ==
    \A i \in Inv :
        h[i].argv.handler_type # "resource" =>
            \A k \in 1..Len(h[i].calls) :
                /\ h[i].calls[k].args = <<>>
                /\ DOMAIN h[i].calls[k].kwargs = DOMAIN Payload(i) \ {"function_name"}
                /\ \A name \in DOMAIN h[i].calls[k].kwargs :
                      h[i].calls[k].kwargs[name] = Payload(i)[name]

C6_Witness ==
    \E i \in Inv :
        /\ h[i].argv.handler_type = "tool"
        /\ Len(h[i].calls) = 1
        /\ DOMAIN h[i].calls[1].kwargs = {"number1", "number2"}
        /\ HoldsReturnValue(i)
        /\ Ended(i)

\* the places of an event in a run's trace
At(i, events) == {n \in 1..Len(h[i].trace) : h[i].trace[n] \in events}
Before(i, first, then) ==
    \A m \in At(i, then) : \E n \in At(i, first) : n < m
Resolution == {"resolved"}
Execution == {"exec"}
Writing == {"open", "written", "error_open", "error_written"}

\* C7. In one invocation the module is loaded before the function is
\* resolved, the function is resolved before it is executed, it is executed
\* before the result of the call is written, and no execution follows the
\* start of a write to the result file.
C7_StepsInOrder ==
    \A i \in Inv :
        /\ Before(i, {"loaded"}, Resolution \cup {"not_found"})
        /\ Before(i, Resolution, Execution)
        /\ Before(i, Execution, {"executed"})
        /\ h[i].result # Unset /\ ~IsErrorObj(h[i].result) => At(i, Execution) # {}
        /\ HoldsReturnValue(i) => Before(i, {"executed"}, {"written"})
        /\ \A n \in At(i, Writing) : \A m \in At(i, Execution) : m < n

C7_Witness ==
    \E i \in Inv :
        /\ Ended(i)
        /\ HoldsReturnValue(i)
        /\ h[i].trace = <<"loaded", "read", "resolved", "exec", "executed",
                          "open", "written">>

\* C8. The handler does not retry: in one invocation the callable is called
\* at most once, also when the call raises or when the serialisation or the
\* write of its return value fails.
C8_CalledAtMostOnce ==
    \A i \in Inv : Len(h[i].calls) <= 1 /\ Cardinality(At(i, Execution)) <= 1

C8_Witness ==
    \E i \in Inv :
        /\ Ended(i)
        /\ Len(h[i].calls) = 1
        /\ ext.body \in {"raise", "return_unencodable"}
        /\ HoldsError(ResultFile(i))

\* the states of one invocation's state machine
Terminates == ext.load # "hang" /\ ext.body # "hang"
ResultWrittenSuccess(i) == Ended(i) /\ HoldsReturnValue(i)
ResultWrittenError(i) == Ended(i) /\ HoldsError(ResultFile(i))
Failures ==
    {"load_failed", "read_failed", "resolve_failed", "not_found", "call_failed",
     "call_raised", "write_failed"}
\* ModuleLoaded, FunctionResolved and Executed were passed, in that order,
\* and no step failed
ThroughEveryStep(i) ==
    /\ At(i, Failures) = {}
    /\ \E a \in At(i, {"loaded"}) : \E b \in At(i, Resolution) :
          \E c \in At(i, {"executed"}) : a < b /\ b < c
          /\ \A w \in At(i, Writing) : c < w
ThroughFailure(i) ==
    \E f \in At(i, Failures) : \E w \in At(i, {"written", "error_written"}) : f < w

\* the place of a step in call_handler: every step leads to a later one
Rank(pc) ==
    CASE pc = "idle" -> 0 [] pc = "main" -> 1 [] pc = "load" -> 2
      [] pc = "exec_module" -> 3 [] pc = "read" -> 4 [] pc = "resolve" -> 5
      [] pc = "call" -> 6 [] pc = "in_call" -> 7 [] pc = "write" -> 8
      [] pc = "dump" -> 9 [] pc = "except" -> 10 [] pc = "except_dump" -> 11
      [] pc = "exit" -> 12 [] OTHER -> 13
Advances(i) == h'[i] # h[i] => Rank(h'[i].pc) > Rank(h[i].pc)

\* C9. Provided module loading and the callable terminate, every invocation
\* reaches ResultWritten(success) or ResultWritten(error), and not both: each
\* step leads to a later step, and the invocation stops only in one of the
\* two terminal states.  ResultWritten(success) is reached only through
\* ModuleLoaded, FunctionResolved and Executed in that order, and every
\* other path goes through a failure to ResultWritten(error).
C9_ReachesTerminalState ==
    /\ [](\A i \in Inv :
            /\ (h[i].pc # "idle" /\ h[i].argv.n = "full" /\ Terminates) =>
                  \/ ResultWrittenSuccess(i) \/ ResultWrittenError(i)
                  \/ ENABLED HandlerNext(i)
            /\ ~(ResultWrittenSuccess(i) /\ ResultWrittenError(i))
            /\ ResultWrittenSuccess(i) => ThroughEveryStep(i)
            /\ ResultWrittenError(i) => ThroughFailure(i))
    /\ [][\A i \in Inv : Advances(i)]_vars

(***************************************************************************)
(* Properties of the Extension Loader.                                     *)
(***************************************************************************)
LoaderEnded == l.pc = "done"
ManifestFile == fs[l.argv.output_path]
\* the callables main() registered, in the order the loader analyses them
Registered ==
    LET r == ext.registration
    IN Get(r, "tools", <<>>) \o Get(r, "resources", <<>>) \o Get(r, "prompts", <<>>)
RegisteredCallables ==
    {f \in {Registered[n] : n \in 1..Len(Registered)} : f.kind = "callable"}
HasUnencodableDefault(f) ==
    \E n \in 1..Len(f.sig) :
        /\ f.sig[n].name # "self"
        /\ f.sig[n].hasDefault /\ ~f.sig[n].default.encodable
\* the stage of load_extension that raises, read off the run's inputs
FailingStage ==
    IF ext.load \in {"nospec", "raise"} THEN "load"
    ELSE IF ext.load = "ok" /\ HasEntryPoint(ext.main)
            /\ ext.main_outcome \in {"return_none", "raise"} THEN "entry_point"
    ELSE IF ext.load = "ok" /\ HasEntryPoint(ext.main) /\ ext.main_outcome = "return"
            /\ \E f \in RegisteredCallables : f.introspection = "raise" THEN "analysis"
    ELSE IF ext.load = "ok" /\ HasEntryPoint(ext.main) /\ ext.main_outcome = "return"
            /\ \E f \in RegisteredCallables : HasUnencodableDefault(f) THEN "serialisation"
    ELSE "none"
ManifestWritten ==
    /\ ManifestFile.state = "json"
    /\ ~IsErrorObj(ManifestFile.value)
    /\ ManifestFile.value = l.result

TextFields == {"id", "description", "author", "version"}
ListFields == {"tools", "resources", "prompts"}
HasDefaultFields(m) ==
    /\ TextFields \cup ListFields \subseteq DOMAIN m
    /\ \A f \in TextFields : m[f] = ""
    /\ \A f \in ListFields : m[f] = <<>>

\* C11. When the loaded module has no main entry point the loader does not
\* fail and writes a default manifest in which id, description, author and
\* version are present and empty strings and tools, resources and prompts
\* are present and empty sequences.
C11_DefaultManifestWithoutMain ==
    LoaderEnded /\ l.argv.n = "full" /\ ext.load = "ok" /\ ~HasEntryPoint(ext.main) =>
        /\ l.exit_status = 0
        /\ ManifestFile.state = "json"
        /\ ~IsErrorObj(ManifestFile.value)
        /\ HasDefaultFields(ManifestFile.value)

\* the run wrote the manifest of a registration main() returned
RegistrationWritten ==
    /\ LoaderEnded /\ ManifestWritten
    /\ ext.load = "ok" /\ HasEntryPoint(ext.main) /\ ext.main_outcome = "return"
Manifest == ManifestFile.value
\* the callables the registration lists under a role, in order
CallableEntries(role) ==
    SelectSeq(Get(ext.registration, role, <<>>), LAMBDA f : f.kind = "callable")
\* a declared name without one leading role prefix
WithoutPrefix(name, prefix) ==
    IF Len(name) >= Len(prefix) /\ SubSeq(name, 1, Len(prefix)) = prefix
    THEN SubSeq(name, Len(prefix) + 1, Len(name))
    ELSE name
PrefixOf(role) ==
    CASE role = "tools" -> "tool_" [] role = "resources" -> "resource_"
      [] OTHER -> "prompt_"
ExpectedBareName(role, name) == WithoutPrefix(name, PrefixOf(role))
ExpectedId(role, name) ==
    LET id == Get(ext.registration, "id", "")
    IN IF id = "" THEN ExpectedBareName(role, name)
       ELSE id \o "-" \o ExpectedBareName(role, name)

\* C12. For every registered tool, resource or prompt callable the
\* descriptor id is "<manifest id>-<bareName>" when the manifest id is not
\* empty and bareName when it is, bareName being the declared name with one
\* leading role prefix removed, or the declared name when it has none.
C12_DescriptorIds ==
    RegistrationWritten =>
        \A role \in ListFields :
            /\ Len(Manifest[role]) = Len(CallableEntries(role))
            /\ \A k \in 1..Len(Manifest[role]) :
                  Manifest[role][k].id = ExpectedId(role, CallableEntries(role)[k].name)

C12_Witness ==
    /\ RegistrationWritten
    /\ Manifest.id = "math-tools"
    /\ Len(Manifest.tools) = 2
    /\ Manifest.tools[1].id = "math-tools-add_numbers"
    /\ Len(Manifest.resources) = 1
    /\ Manifest.resources[1].id = "math-tools-tool_add_numbers"

\* the descriptors of a manifest, of every role
AllDescriptors(m) == m.tools \o m.resources \o m.prompts

\* C13. In every manifest the loader writes, no two descriptors carry the
\* same id, within one of the three lists or across them.
C13_IdsUnique ==
    RegistrationWritten =>
        LET ds == AllDescriptors(Manifest)
        IN \A j, k \in 1..Len(ds) : j # k => ds[j].id # ds[k].id

\* C14. Every descriptor of a written manifest names, as function_name, an
\* attribute of the module that the handler resolves to a callable: the
\* lookup of line 30 gives neither None ('Function ... not found') nor a
\* value that is not callable.
C14_FunctionNamesResolve ==
    RegistrationWritten =>
        LET ds == AllDescriptors(Manifest)
        IN \A k \in 1..Len(ds) :
              /\ ~IsNone(GetAttr(ds[k].function_name))
              /\ GetAttr(ds[k].function_name).kind = "callable"

\* a registration none of whose callables fails the load
Loadable ==
    /\ ext.load = "ok" /\ HasEntryPoint(ext.main) /\ ext.main_outcome = "return"
    /\ FailingStage = "none"
HasNonCallable(role) ==
    Len(CallableEntries(role)) < Len(Get(ext.registration, role, <<>>))
\* the descriptors the callable entries alone give
DescriptorsOf(role, entries) ==
    [k \in 1..Len(entries) |->
        Descriptor(role, Get(ext.registration, "id", ""), analyze_function(entries[k]))]

\* C15. Entries that are not callable are skipped without error: each list
\* of the manifest holds one descriptor per callable entry of the
\* registration's sequence, in the same order, equal to the descriptor the
\* callable gets when it is registered without the other entries, and the
\* output is a manifest, not {error}.
C15_NonCallablesSkipped ==
    LoaderEnded /\ l.argv.n = "full" /\ Loadable =>
        /\ ManifestWritten
        /\ l.exit_status = 0
        /\ \A role \in ListFields :
              Manifest[role] = DescriptorsOf(role, CallableEntries(role))

C15_Witness ==
    /\ LoaderEnded /\ Loadable /\ ManifestWritten
    /\ HasNonCallable("tools") /\ HasNonCallable("resources")
    /\ Len(Manifest.tools) = 1
    /\ Manifest.tools[1].function_name = "tool_subtract_numbers"
    /\ Manifest.resources = <<>>

(***************************************************************************)
(* Properties of the Signature Analyzer and the Type Mapper, stated on the *)
(* descriptors a loader run has built from the callables main() listed.    *)
(***************************************************************************)
\* the descriptors built so far for a role
DescriptorsSoFar(role) ==
    IF role \in DOMAIN l.result THEN l.result[role]
    ELSE IF l.role = role THEN l.done
    ELSE <<>>
\* each analysed callable with its descriptor
AnalysedPairs ==
    UNION { { [func |-> CallableEntries(role)[k], info |-> DescriptorsSoFar(role)[k]] :
                k \in 1..Len(DescriptorsSoFar(role)) } : role \in ListFields }
DeclaredParams(f) == {q \in {f.sig[n] : n \in 1..Len(f.sig)} : q.name # "self"}
\* the declared type is an optional wrapper: Optional[T], Union[..., None] or
\* T | None
DeclaredNullable(t) ==
    /\ t.origin = "Union" \/ t.name = "UnionType"
    /\ \E n \in 1..Len(t.args) : t.args[n] = TNone
\* the type T the wrapper is over
InnerType(t) ==
    LET rest == SelectSeq(t.args, LAMBDA a : a # TNone)
    IN IF Len(rest) = 1 THEN rest[1] ELSE [t EXCEPT !.args = rest]

\* C16. Every parameter that declares a default value, None included, has
\* has_default = true and is_optional = true in its descriptor, whatever its
\* declared type.
C16_DefaultMakesOptional ==
    \A pair \in AnalysedPairs :
        \A q \in DeclaredParams(pair.func) :
            q.default.declared =>
                /\ q.name \in DOMAIN pair.info.parameters
                /\ pair.info.parameters[q.name].has_default = TRUE
                /\ pair.info.parameters[q.name].is_optional = TRUE

C16_Witness ==
    /\ LoaderEnded /\ ManifestWritten
    /\ \E pair \in AnalysedPairs : \E q \in DeclaredParams(pair.func) :
          /\ q.type = TInt /\ q.default = NoneDefault
          /\ pair.info.parameters[q.name].is_optional = TRUE
          /\ pair.info.parameters[q.name].default_value = JsonNull

\* C17. Every parameter declared as an optional wrapper over a type T, with
\* no default, has is_optional = true and the wire schema of T.
C17_OptionalUnwrapped ==
    \A pair \in AnalysedPairs :
        \A q \in DeclaredParams(pair.func) :
            ~q.default.declared /\ DeclaredNullable(q.type) =>
                /\ pair.info.parameters[q.name].is_optional = TRUE
                /\ pair.info.parameters[q.name].zod_type =
                      type_to_zod_schema(InnerType(q.type))

\* C18. A parameter with no default and a declared type that is no optional
\* wrapper has has_default = false, is_optional = false and default_value =
\* null; a parameter with a default has the declared default as
\* default_value.
C18_DefaultRecorded ==
    \A pair \in AnalysedPairs :
        \A q \in DeclaredParams(pair.func) :
            LET d == pair.info.parameters[q.name]
            IN /\ ~q.default.declared /\ ~DeclaredNullable(q.type) =>
                    /\ d.has_default = FALSE
                    /\ d.is_optional = FALSE
                    /\ d.default_value = JsonNull
               /\ q.default.declared =>
                    d.default_value =
                        IF q.default.value = "None" THEN JsonNull
                        ELSE [value |-> q.default.value, encodable |-> q.default.encodable]

\* f(a: int, b: int = 0)
C18_Witness ==
    /\ LoaderEnded /\ ManifestWritten
    /\ Len(Manifest.tools) = 1
    /\ Manifest.tools[1].function_name = "tool_f"
    /\ LET ps == Manifest.tools[1].parameters
       IN /\ DOMAIN ps = {"a", "b"}
          /\ ps["a"].zod_type = "number().int()"
          /\ ps["a"].has_default = FALSE /\ ps["a"].is_optional = FALSE
          /\ ps["a"].default_value = JsonNull
          /\ ps["b"].zod_type = "number().int()"
          /\ ps["b"].has_default = TRUE /\ ps["b"].is_optional = TRUE
          /\ ps["b"].default_value = [value |-> "0", encodable |-> TRUE]

\* the seven wire primitives, as the schema names the loader writes
WirePrimitives ==
    [integer |-> "number().int()", number |-> "number()", string |-> "string()",
     boolean |-> "boolean()", array |-> "array()", object |-> "object()",
     any |-> "any()"]
ElementTypes == {TInt, TStr}
\* the mapping table: the primitive of a declared type
ExpectedWire(t) ==
    CASE t = Class("int") -> WirePrimitives.integer
      [] t = Class("float") -> WirePrimitives.number
      [] t = Class("str") -> WirePrimitives.string
      [] t = Class("bool") -> WirePrimitives.boolean
      [] t = Class("list") \/ \E a \in ElementTypes : t \in {ListOf(a), BuiltinListOf(a)} ->
            WirePrimitives.array
      [] t = Class("dict") \/ \E a, b \in ElementTypes : t \in {DictOf(a, b), BuiltinDictOf(a, b)} ->
            WirePrimitives.object
      [] OTHER -> WirePrimitives.any
\* the type a parameter hands to the mapper: its hint, or the first member
\* that is not None when the hint is a typing.Union with None
MappedType(q) ==
    LET hint == IF q.type = NoAnnotation THEN Class("Any")
                ELSE IF q.type.origin = "ForwardRef" THEN Class(q.type.name)
                ELSE q.type
    IN IF hint.origin = "Union" /\ DeclaredNullable(hint)
       THEN Head(SelectSeq(hint.args, LAMBDA a : a # TNone))
       ELSE hint

\* C19. The Type Mapper is a total function into the seven wire primitives:
\* int gives integer, float number, str string, bool boolean, a plain or
\* parameterized list array, a plain or parameterized dict object, and every
\* other type any.  It holds for every declared type, and for the schema of
\* every parameter the loader analysed.
C19_MapperTotal ==
    /\ \A t \in DeclaredTypes :
          /\ type_to_zod_schema(t) \in {WirePrimitives[f] : f \in DOMAIN WirePrimitives}
          /\ type_to_zod_schema(t) = ExpectedWire(t)
    /\ \A pair \in AnalysedPairs :
          \A q \in DeclaredParams(pair.func) :
              pair.info.parameters[q.name].zod_type = ExpectedWire(MappedType(q))

C19_Witness ==
    /\ LoaderEnded /\ ManifestWritten
    /\ \E pair \in AnalysedPairs : \E q \in DeclaredParams(pair.func) :
          /\ q.type = TBool
          /\ pair.info.parameters[q.name].zod_type = "boolean()"

\* the declared types the mapper has no primitive for: unannotated, unmapped,
\* unknown to the mapper, or naming nothing the module can resolve
DegradedTypes ==
    {NoAnnotation, TBytes, TNone, UnionOf(<<TInt, TStr>>), ForwardRef("Image")}
\* main() registered one tool, with a parameter of such a type and no
\* default that json cannot encode
DegradedProbe ==
    /\ ext.load = "ok" /\ HasEntryPoint(ext.main) /\ ext.main_outcome = "return"
    /\ Len(Get(ext.registration, "tools", <<>>)) = 1
    /\ ext.registration.tools[1].kind = "callable"
    /\ \A q \in DeclaredParams(ext.registration.tools[1]) : q.default.encodable
    /\ \E q \in DeclaredParams(ext.registration.tools[1]) : q.type \in DegradedTypes

\* C20. A registered callable with a parameter whose declared type is
\* unannotated, unmapped, unknown or unresolved does not fail the load: the
\* loader writes a manifest in which the parameter's wire schema is any, and
\* not {error}.
C20_DegradesToAny ==
    LoaderEnded /\ l.argv.n = "full" /\ DegradedProbe =>
        /\ ManifestWritten
        /\ l.exit_status = 0
        /\ \A q \in DeclaredParams(ext.registration.tools[1]) :
              q.type \in DegradedTypes =>
                  Manifest.tools[1].parameters[q.name].zod_type = "any()"

\* the names a callable declares as parameters
DeclaredNames(f) == {f.sig[n].name : n \in 1..Len(f.sig)}

\* C21. For every analysed callable the descriptor's parameters mapping has
\* exactly one entry for each declared parameter other than one literally
\* named self, and no entry for self or for a name that is no declared
\* parameter.
C21_ParametersAreTheDeclared ==
    \A pair \in AnalysedPairs :
        /\ DOMAIN pair.info.parameters = DeclaredNames(pair.func) \ {"self"}
        /\ "self" \notin DOMAIN pair.info.parameters
        /\ \A n \in 1..Len(pair.func.sig) :
              LET q == pair.func.sig[n]
              IN q.name # "self" =>
                    pair.info.parameters[q.name].has_default = q.default.declared

C21_Witness ==
    /\ LoaderEnded /\ ManifestWritten
    /\ \E pair \in AnalysedPairs :
          /\ DeclaredNames(pair.func) = {"self", "x", "y"}
          /\ DOMAIN pair.info.parameters = {"x", "y"}
          /\ pair.info.parameters["x"].has_default = TRUE
          /\ pair.info.parameters["y"].has_default = FALSE

\* the documentation of a callable, as the description is specified from it
HeaderWords == {"args:", "arguments:", "returns:"}
SameLetter(c, d) ==
    \/ c = d
    \/ \E n \in 1..Len(LowerCase) :
          {c, d} = {SubSeq(LowerCase, n, n), SubSeq(UpperCase, n, n)}
BeginsWithIgnoringCase(line, word) ==
    /\ Len(line) >= Len(word)
    /\ \A n \in 1..Len(word) : SameLetter(SubSeq(line, n, n), SubSeq(word, n, n))
IsHeaderLine(line) == \E word \in HeaderWords : BeginsWithIgnoringCase(line, word)
TrimmedLines(text) ==
    LET lines == SplitLines(text)
    IN [n \in 1..Len(lines) |-> Strip(lines[n])]
\* the lines before the first header line, or all of them
BeforeFirstHeader(lines) ==
    LET headers == {n \in 1..Len(lines) : IsHeaderLine(lines[n])}
    IN IF headers = {} THEN lines
       ELSE SubSeq(lines, 1, (CHOOSE n \in headers : \A m \in headers : n <= m) - 1)
RECURSIVE JoinedBySpaces(_)
JoinedBySpaces(lines) ==
    IF Len(lines) = 0 THEN ""
    ELSE IF Len(lines) = 1 THEN lines[1]
    ELSE lines[1] \o " " \o JoinedBySpaces(Tail(lines))
ExpectedDescription(doc) ==
    IF ~doc.has THEN ""
    ELSE Strip(JoinedBySpaces(BeforeFirstHeader(TrimmedLines(doc.text))))

C23_TemplateOnResourcesOnly ==
    RegistrationWritten =>
        \A role \in ListFields :
            /\ Len(Manifest[role]) = Len(CallableEntries(role))
            /\ \A k \in 1..Len(Manifest[role]) :
                  LET d == Manifest[role][k]
                      bare == ExpectedBareName(role, CallableEntries(role)[k].name)
                  IN /\ "template" \in DOMAIN d <=> role = "resources"
                     /\ role = "resources" =>
                           /\ d.template = bare \o "://{path}"
                           /\ d.id \in {bare, Manifest.id \o "-" \o bare}

C23_Witness ==
    /\ RegistrationWritten
    /\ Len(Manifest.tools) = 1 /\ Len(Manifest.resources) = 1
    /\ Len(Manifest.prompts) = 1
    /\ Manifest.resources[1].function_name = "resource_math_formula"
    /\ Manifest.resources[1].template = "math_formula://{path}"
    /\ Manifest.resources[1].id = "math-tools-math_formula"
    /\ "template" \notin DOMAIN Manifest.tools[1]
    /\ "template" \notin DOMAIN Manifest.prompts[1]

(***************************************************************************)
(* Properties of runs the host spawns one after another and side by side.  *)
(***************************************************************************)
\* sys.path and sys.modules of a process
ModuleState(p) == [sys_path |-> p.sys_path, sys_modules |-> p.sys_modules]
\* what the process has of them when it is the only run there ever was:
\* nothing of the extension until lines 14-21 ran, then the directory of its
\* own file in front of the script's and its own file as "extension"
AloneState(p) ==
    IF p.pc \in {"idle", "main", "load"}
    THEN [sys_path |-> <<"src/server/mcp/extensions">>, sys_modules |-> EmptyDict]
    ELSE [sys_path |-> <<DirName(p.argv.file_path), "src/server/mcp/extensions">>,
          sys_modules |-> [k \in {"extension"} |-> p.argv.file_path]]

OwnResult(i) ==
    IF ext.load = "raise" THEN [error |-> MsgLoad]
    ELSE IF Attr(RequestedName(i)).kind = "absent"
    THEN [error |-> "Function " \o RequestedName(i) \o " not found"]
    ELSE IF ext.body = "return"
    THEN [value |-> [fn |-> RequestedName(i), args |-> <<>>, kwargs |-> RequestArgs(i)],
          encodable |-> TRUE]
    ELSE [error |-> MsgEncode]
\* the invocations spawned with the same result path as invocation i
SharesResultPath(i) ==
    {j \in Inv \ {i} : h[j].pc # "idle" /\ h[j].argv.result_path = h[i].argv.result_path}

\* C25. When handler invocations run side by side, each with a result path
\* of its own, then under every interleaving the file an invocation has
\* opened holds nothing of another invocation and, when it has ended, the
\* file holds its own result; a result file that holds anything else is
\* reachable only when two invocations share the path.
C25_OwnResultOnOwnPath ==
    \A i \in Inv :
        SharesResultPath(i) = {} =>
            /\ h[i].pc \in {"dump", "except_dump"} => ResultFile(i) = Partial
            /\ Ended(i) => Holds(ResultFile(i), OwnResult(i))

C25_Witness ==
    /\ Ended(1) /\ Ended(2)
    /\ h[2].trace[1] = "spawned_beside"
    /\ h[1].argv.result_path # h[2].argv.result_path
    /\ h[1].argv.file_path = h[2].argv.file_path
    /\ RequestedName(1) = "tool_add_numbers" /\ RequestedName(2) = "bogus_fn"
    /\ HoldsReturnValue(1)
    /\ Holds(ResultFile(2), [error |-> "Function bogus_fn not found"])

\* two invocations that share the result path, one of which has ended with
\* the file holding something else than its result
InterferenceOnSharedPath ==
    \E i \in Inv :
        /\ Ended(i) /\ SharesResultPath(i) # {}
        /\ ~Holds(ResultFile(i), OwnResult(i))

(***************************************************************************)
(* Properties of the handler's resolution and error paths.                 *)
(***************************************************************************)
\* C26. Function resolution has three cases.  An attribute that is absent,
\* or whose value is None, is reported as "Function <name> not found" with
\* exit status 0 and no call.  An attribute that is present and not callable
\* gives a call failure that is caught, an {error} result and an exit status
\* that is not 0.  Only an attribute that is present and callable is
\* executed.
C26_ThreeCasesOfResolution ==
    \A i \in Inv :
        Ended(i) /\ NamesFunction(i) =>
            LET kind == Attr(RequestedName(i)).kind
            IN /\ kind \in {"absent", "none"} =>
                    /\ h[i].calls = <<>>
                    /\ Holds(ResultFile(i),
                             [error |-> "Function " \o RequestedName(i) \o " not found"])
                    /\ h[i].exit_status = 0
               /\ kind = "value" =>
                    /\ h[i].calls = <<>>
                    /\ h[i].uncaught = "" /\ h[i].exc # ""
                    /\ HoldsError(ResultFile(i))
                    /\ ResultFile(i).value.error # "Function " \o RequestedName(i) \o " not found"
                    /\ h[i].exit_status \notin {0, -1}
               /\ h[i].calls # <<>> => kind = "callable"

C26_Witness ==
    \E i \in Inv :
        /\ Ended(i) /\ NamesFunction(i)
        /\ RequestedName(i) = "__doc__"
        /\ h[i].argv.handler_type = "tool"
        /\ Holds(ResultFile(i), [error |-> "'str' object is not callable"])
        /\ h[i].exit_status = 1

\* the handler has read a payload that lacks a field it needs
Malformed(i) ==
    /\ h[i].argv.n = "full" /\ ext.load = "ok" /\ h[i].argv.payload_ok
    /\ \/ "function_name" \notin DOMAIN Payload(i)
       \/ /\ h[i].argv.handler_type = "resource"
          /\ ~({"uri", "params"} \subseteq DOMAIN Payload(i))
\* the field whose lookup raises KeyError
FirstMissing(i) ==
    IF "function_name" \notin DOMAIN Payload(i) THEN "function_name"
    ELSE IF "uri" \notin DOMAIN Payload(i) THEN "uri"
    ELSE "params"
NamesNoFunction(i) ==
    /\ "function_name" \in DOMAIN Payload(i)
    /\ Attr(RequestedName(i)).kind \in {"absent", "none"}

\* C27, as claimed.  A malformed payload never leads to a call: when the
\* payload lacks function_name, or handler_type is "resource" and it lacks
\* uri or params, the handler invokes no callable, writes an {error} object
\* to the result file and exits with a status that is not 0.
C27_MalformedExitsNonZero ==
    \A i \in Inv :
        Ended(i) /\ Malformed(i) =>
            /\ h[i].calls = <<>>
            /\ HoldsError(ResultFile(i))
            /\ h[i].exit_status \notin {0, -1}

\* C27, amended.  A malformed payload never leads to a call and always
\* gives an {error} object in the result file.  The exit status is not 0
\* and the error names the missing field, except when function_name is
\* present and names no attribute of the module (or one that is None): the
\* lookup comes before uri and params are read, so the result is then the
\* "not found" object and the exit status is 0.
C27_MalformedNeverCalls ==
    \A i \in Inv :
        Ended(i) /\ Malformed(i) =>
            /\ h[i].calls = <<>>
            /\ h[i].uncaught = ""
            /\ HoldsError(ResultFile(i))
            /\ IF NamesNoFunction(i)
               THEN /\ Holds(ResultFile(i),
                             [error |-> "Function " \o RequestedName(i) \o " not found"])
                    /\ h[i].exit_status = 0
               ELSE /\ Holds(ResultFile(i), [error |-> "'" \o FirstMissing(i) \o "'"])
                    /\ h[i].exit_status \notin {0, -1}

C27_Witness ==
    \E i \in Inv :
        /\ Ended(i) /\ Malformed(i)
        /\ h[i].argv.handler_type = "resource"
        /\ DOMAIN Payload(i) = {"function_name", "params"}
        /\ RequestedName(i) = "bogus_fn"
        /\ h[i].calls = <<>>
        /\ h[i].exit_status = 0

\* the serialisation of the callable's return value fails
SerialisationFails(i) == CallBinds(i) /\ ext.body = "return_unencodable"
Opens(i) == At(i, {"open", "error_open"})

\* C28. When serialising the callable's return value fails after the result
\* file was opened for writing, and possibly partly written, the error path
\* opens the file again and truncates it: the final content is exactly one
\* {error} object, never a mixture of success output and error output, the
\* file is written at most twice in the invocation and the exit status is
\* not 0.
C28_ErrorReplacesPartialOutput ==
    \A i \in Inv :
        SerialisationFails(i) =>
            /\ Cardinality(Opens(i)) <= 2
            /\ ResultFile(i).state # "mixed"
            /\ h[i].pc = "except_dump" => ResultFile(i) = Partial
            /\ Ended(i) =>
                  /\ Holds(ResultFile(i), [error |-> MsgEncode])
                  /\ h[i].exit_status \notin {0, -1}

C28_Witness ==
    \E i \in Inv :
        /\ SerialisationFails(i) /\ Ended(i)
        /\ h[i].trace = <<"loaded", "read", "resolved", "exec", "executed", "open",
                          "write_failed", "error_open", "error_written">>
        /\ Holds(ResultFile(i), [error |-> MsgEncode])
        /\ h[i].exit_status = 1

\* the first write has left part of the return value in the file
PartialOutputLeft ==
    \E i \in Inv :
        SerialisationFails(i) /\ h[i].pc = "except" /\ ResultFile(i) = PartlyWritten

(***************************************************************************)
(* Properties of the loader's output as a whole.                           *)
(***************************************************************************)
\* str(e) of the exception the failing stage raises
StageMessages ==
    CASE FailingStage = "load" -> {MsgLoad, MsgNoSpec}
      [] FailingStage = "entry_point" -> {MsgNoGet, MsgMain}
      [] FailingStage = "analysis" -> {MsgIntrospect}
      [] FailingStage = "serialisation" -> {MsgEncode}
      [] OTHER -> {}
ManifestFields == TextFields \cup ListFields \cup {"format"}

\* C29. The loader's output is all or nothing.  When the analysis of one
\* registered callable, the entry point call or the serialisation of the
\* manifest raises, the output file holds {error: <message>} and nothing
\* else: none of the descriptors built before the failure, no field of the
\* manifest.  The output is never a partial manifest and never a manifest
\* with an error field.
C29_ManifestOrErrorOnly ==
    LoaderEnded /\ l.argv.n = "full" =>
        /\ ManifestFile.state = "json"
        /\ FailingStage \in {"entry_point", "analysis", "serialisation"} =>
              /\ DOMAIN ManifestFile.value = {"error"}
              /\ ManifestFile.value.error \in StageMessages
              /\ l.exit_status \notin {0, -1}
        /\ "error" \in DOMAIN ManifestFile.value =>
              DOMAIN ManifestFile.value \cap ManifestFields = {}
        /\ DOMAIN ManifestFile.value \cap ManifestFields # {} =>
              /\ DOMAIN ManifestFile.value = ManifestFields
              /\ FailingStage = "none"

\* tool_add_numbers was analysed before the analysis of the next tool failed
C29_Witness ==
    /\ LoaderEnded
    /\ FailingStage = "analysis"
    /\ Len(l.done) = 1 /\ l.done[1].function_name = "tool_add_numbers"
    /\ Holds(ManifestFile, [error |-> MsgIntrospect])
    /\ l.exit_status = 1

\* before the error is written the file holds the start of the manifest
PartialManifestLeft ==
    /\ FailingStage = "serialisation"
    /\ l.pc = "except" /\ ManifestFile = PartlyWritten

\* C30. When the module has a callable main that returns a registration
\* mapping, the written manifest holds id, description, author and version,
\* each the registered value or the empty string when the registration
\* omits it, and the lists tools, resources and prompts, empty when the
\* registration omits the sequence; such a manifest is written whenever no
\* stage of the load fails.  A module attribute main that is not callable is
\* treated as a missing entry point: it is never invoked and the output is
\* that of a module without main.
C30_ManifestFieldsFromRegistration ==
    /\ RegistrationWritten =>
          /\ \A f \in TextFields :
                /\ f \in DOMAIN Manifest
                /\ Manifest[f] =
                      IF f \in DOMAIN ext.registration THEN ext.registration[f] ELSE ""
          /\ \A role \in ListFields :
                /\ role \in DOMAIN Manifest
                /\ role \notin DOMAIN ext.registration => Manifest[role] = <<>>
                /\ Len(Manifest[role]) <= Len(Get(ext.registration, role, <<>>))
    /\ LoaderEnded /\ l.argv.n = "full" /\ Loadable => RegistrationWritten
    /\ ext.main \in {"absent", "value"} =>
          /\ l.main_calls = 0
          /\ LoaderEnded /\ l.argv.n = "full" /\ ext.load = "ok" =>
                /\ Holds(ManifestFile, EmptyDict)
                /\ l.exit_status = 0

C30_Witness ==
    /\ RegistrationWritten
    /\ ext.registration = [id |-> "math-tools",
                           description |-> "Mathematical tools and formulas",
                           version |-> "1.0.0", author |-> "Clay",
                           tools |-> <<Attr("tool_add_numbers")>>]
    /\ Manifest.id = "math-tools" /\ Manifest.author = "Clay"
    /\ Len(Manifest.tools) = 1
    /\ Manifest.resources = <<>> /\ Manifest.prompts = <<>>

\* a main that is not callable: the loader has ended without calling it
NonCallableMainNotInvoked ==
    /\ LoaderEnded /\ ext.main = "value" /\ l.main_calls = 0
    /\ Holds(ManifestFile, EmptyDict)

====
